---- MODULE Spec2Model ----
(***************************************************************************)
(* FastNoiseLite.py (2D Perlin noise with fractal octaves) and the         *)
(* rendering loop of perlin_noise_generator.py.                            *)
(*                                                                         *)
(* Python numbers are modelled by what the interpreter computes:           *)
(*   - an int is an exact integer of any size (sign and magnitude);        *)
(*   - a float is an IEEE-754 binary64 value: a signed zero, a finite      *)
(*     value (-1)^s * m * 2^e with m odd, an infinity or a NaN; every      *)
(*     operation rounds to nearest, ties to even, as the hardware does.    *)
(* Magnitudes and mantissas are natural numbers written as little-endian   *)
(* sequences of 15-bit limbs without a high zero limb (<<>> is 0).         *)
(***************************************************************************)
EXTENDS Integers, Sequences, FiniteSets, TLC

(***************************************************************************)
(* Natural numbers of any size.                                            *)
(***************************************************************************)
Limb == 2^15

Pow2(k) == 2^k

RECURSIVE BNorm(_)
BNorm(a) ==
    IF Len(a) > 0 /\ a[Len(a)] = 0 THEN BNorm(SubSeq(a, 1, Len(a) - 1)) ELSE a

BigOfNat(n) ==
    BNorm(<<n % Limb, (n \div Limb) % Limb, n \div (Limb * Limb)>>)

RECURSIVE BZeros(_)
BZeros(n) == IF n <= 0 THEN <<>> ELSE <<0>> \o BZeros(n - 1)

BLimbAt(a, i) == IF i <= Len(a) THEN a[i] ELSE 0

RECURSIVE BAddC(_, _, _, _)
BAddC(a, b, i, c) ==
    IF i > Len(a) /\ i > Len(b)
    THEN (IF c = 0 THEN <<>> ELSE <<c>>)
    ELSE LET t == BLimbAt(a, i) + BLimbAt(b, i) + c
         IN  <<t % Limb>> \o BAddC(a, b, i + 1, t \div Limb)

BAdd(a, b) == BAddC(a, b, 1, 0)

\* a - b for a >= b
RECURSIVE BSubC(_, _, _, _)
BSubC(a, b, i, c) ==
    IF i > Len(a)
    THEN <<>>
    ELSE LET t == a[i] - BLimbAt(b, i) - c
         IN  IF t < 0
             THEN <<t + Limb>> \o BSubC(a, b, i + 1, 1)
             ELSE <<t>> \o BSubC(a, b, i + 1, 0)

BSub(a, b) == BNorm(BSubC(a, b, 1, 0))

RECURSIVE BCmpFrom(_, _, _)
BCmpFrom(a, b, i) ==
    IF i = 0 THEN 0
    ELSE IF a[i] < b[i] THEN -1
    ELSE IF a[i] > b[i] THEN 1
    ELSE BCmpFrom(a, b, i - 1)

\* -1, 0, 1 as a < b, a = b, a > b
BCmp(a, b) ==
    IF Len(a) < Len(b) THEN -1
    ELSE IF Len(a) > Len(b) THEN 1
    ELSE BCmpFrom(a, b, Len(a))

RECURSIVE BMulLimb(_, _, _, _)
BMulLimb(a, d, i, c) ==
    IF i > Len(a)
    THEN (IF c = 0 THEN <<>> ELSE <<c>>)
    ELSE LET t == a[i] * d + c
         IN  <<t % Limb>> \o BMulLimb(a, d, i + 1, t \div Limb)

RECURSIVE BMul(_, _)
BMul(a, b) ==
    IF a = <<>> \/ b = <<>> THEN <<>>
    ELSE IF Len(b) = 1 THEN BNorm(BMulLimb(a, b[1], 1, 0))
    ELSE LET rest == BMul(a, Tail(b))
         IN  BNorm(BAdd(BMulLimb(a, b[1], 1, 0),
                        IF rest = <<>> THEN <<>> ELSE <<0>> \o rest))

\* a * 2^k
BShl(a, k) ==
    IF a = <<>> THEN <<>>
    ELSE BZeros(k \div 15) \o BMulLimb(a, Pow2(k % 15), 1, 0)

RECURSIVE BShrBits(_, _, _)
BShrBits(a, r, i) ==
    IF i > Len(a) THEN <<>>
    ELSE <<(a[i] \div Pow2(r)) + (BLimbAt(a, i + 1) % Pow2(r)) * Pow2(15 - r)>>
         \o BShrBits(a, r, i + 1)

\* floor(a / 2^k)
BShr(a, k) ==
    LET q == k \div 15
        r == k % 15
        d == IF q >= Len(a) THEN <<>> ELSE SubSeq(a, q + 1, Len(a))
    IN  IF r = 0 THEN d ELSE BNorm(BShrBits(d, r, 1))

\* bit k of a (bit 0 is the lowest)
BBit(a, k) == (BLimbAt(a, (k \div 15) + 1) \div Pow2(k % 15)) % 2

\* a mod 2^k = 0
BLowZero(a, k) ==
    /\ \A i \in 1..(k \div 15) : BLimbAt(a, i) = 0
    /\ BLimbAt(a, (k \div 15) + 1) % Pow2(k % 15) = 0

RECURSIVE NatBitLen(_)
NatBitLen(n) == IF n = 0 THEN 0 ELSE 1 + NatBitLen(n \div 2)

BBitLen(a) ==
    IF a = <<>> THEN 0 ELSE 15 * (Len(a) - 1) + NatBitLen(a[Len(a)])

RECURSIVE NatTz(_)
NatTz(n) == IF n % 2 = 1 THEN 0 ELSE 1 + NatTz(n \div 2)

RECURSIVE BTzFrom(_, _)
BTzFrom(a, i) == IF a[i] = 0 THEN 15 + BTzFrom(a, i + 1) ELSE NatTz(a[i])

\* the number of trailing zero bits of a > 0
BTz(a) == BTzFrom(a, 1)

BOdd(a) == a # <<>> /\ a[1] % 2 = 1

\* a mod 256
BLow8(a) == BLimbAt(a, 1) % 256

(***************************************************************************)
(* Python values: ints, floats, and the exception a call ended with.       *)
(***************************************************************************)
Fin(s, m, e) == [k |-> "fin", s |-> s, m |-> m, e |-> e]

Zero(s) == Fin(s, <<>>, 0)

Inf(s) == [k |-> "inf", s |-> s, m |-> <<>>, e |-> 0]

NaN == [k |-> "nan", s |-> 0, m |-> <<>>, e |-> 0]

PyInt(s, m) == [k |-> "int", s |-> IF m = <<>> THEN 0 ELSE s, m |-> m, e |-> 0]

Raise(exc) == [k |-> exc, s |-> 0, m |-> <<>>, e |-> 0]

Errors == {"OverflowError", "ValueError", "ZeroDivisionError"}

IsErr(v) == v.k \in Errors

IsZero(v) == v.k = "fin" /\ v.m = <<>>

Max(a, b) == IF a >= b THEN a ELSE b

Min(a, b) == IF a <= b THEN a ELSE b

\* The int n
IntOf(n) == IF n < 0 THEN PyInt(1, BigOfNat(-n)) ELSE PyInt(0, BigOfNat(n))

\* (-1)^s * m * 2^e for m > 0 with tz trailing zero bits
PackTz(s, m, e, tz) == Fin(s, BShr(m, tz), e + tz)

\* (-1)^s * m * 2^e with no rounding needed, or an infinity
Pack(s, m, e, etop) ==
    IF m = <<>> THEN Zero(s)
    ELSE IF BBitLen(m) + e > etop THEN Inf(s)
    ELSE PackTz(s, m, e, BTz(m))

\* q, or q + 1 when the bits dropped from q are more than half a unit, or
\* exactly half and q is odd
RoundUp(q, half, low) == IF half /\ (low \/ BOdd(q)) THEN BAdd(q, <<1>>) ELSE q

\* N / 2^sh (plus a fraction, nonzero iff sticky) to the nearest integer, ties
\* to even
RoundAt(N, sh, sticky) ==
    IF sh <= 0 THEN N
    ELSE RoundUp(BShr(N, sh), BBit(N, sh - 1) = 1, sticky \/ ~BLowZero(N, sh - 1))

RoundSh(s, N, e, sticky, etop, sh) ==
    Pack(s, RoundAt(N, sh, sticky), e + Max(sh, 0), etop)

\* (-1)^s * (N + a fraction, nonzero iff sticky) * 2^e rounded to the nearest
\* value of prec bits whose lowest bit is worth 2^emin or more, ties to even
Round(s, N, e, sticky, prec, emin, etop) ==
    IF N = <<>> THEN Zero(s)
    ELSE RoundSh(s, N, e, sticky, etop, Max(BBitLen(N) - prec, emin - e))

\* binary64: 53 bits, lowest subnormal 2^-1074, overflow at 2^1024
R64(s, N, e, sticky) == Round(s, N, e, sticky, 53, -1074, 1024)

\* binary32: 24 bits, lowest subnormal 2^-149, overflow at 2^128
R32(s, N, e, sticky) == Round(s, N, e, sticky, 24, -149, 128)

Top(v) == v.e + BBitLen(v.m)

FNeg(a) == IF a.k = "nan" THEN a ELSE [a EXCEPT !.s = 1 - a.s]

\* the sum of the finite nonzero a = Na * 2^lo and b = Nb * 2^lo, c as BCmp(Na, Nb)
AddAligned(a, b, lo, Na, Nb, c) ==
    IF a.s # b.s /\ c = 0 THEN Zero(0)
    ELSE R64(IF a.s = b.s \/ c > 0 THEN a.s ELSE b.s,
             IF a.s = b.s THEN BAdd(Na, Nb)
             ELSE IF c > 0 THEN BSub(Na, Nb) ELSE BSub(Nb, Na),
             lo, FALSE)

AddMag(a, b, lo, Na, Nb) == AddAligned(a, b, lo, Na, Nb, BCmp(Na, Nb))

AddAt(a, b, lo) == AddMag(a, b, lo, BShl(a.m, a.e - lo), BShl(b.m, b.e - lo))

\* float + float
FAdd(a, b) ==
    IF a.k = "nan" \/ b.k = "nan" THEN NaN
    ELSE IF a.k = "inf" THEN (IF b.k = "inf" /\ b.s # a.s THEN NaN ELSE a)
    ELSE IF b.k = "inf" THEN b
    ELSE IF a.m = <<>>
         THEN (IF b.m = <<>> THEN Zero(IF a.s = 1 /\ b.s = 1 THEN 1 ELSE 0) ELSE b)
    ELSE IF b.m = <<>> THEN a
    ELSE IF Top(a) - Top(b) > 60 THEN a
    ELSE IF Top(b) - Top(a) > 60 THEN b
    ELSE AddAt(a, b, Min(a.e, b.e))

\* float - float
FSub(a, b) == FAdd(a, FNeg(b))

SignXor(a, b) == IF a.s = b.s THEN 0 ELSE 1

\* float * float
FMul(a, b) ==
    IF a.k = "nan" \/ b.k = "nan" THEN NaN
    ELSE IF a.k = "inf" \/ b.k = "inf"
         THEN (IF IsZero(a) \/ IsZero(b) THEN NaN ELSE Inf(SignXor(a, b)))
    ELSE IF a.m = <<>> \/ b.m = <<>> THEN Zero(SignXor(a, b))
    ELSE R64(SignXor(a, b), BMul(a.m, b.m), a.e + b.e, FALSE)

\* n quotient bits of R / D for R < D: [q, r] with R * 2^n = q * D + r
RECURSIVE DivChunk(_, _, _, _)
DivChunk(R, D, n, acc) ==
    IF n = 0 THEN [q |-> acc, r |-> R]
    ELSE LET R2 == BAdd(R, R)
         IN  IF BCmp(R2, D) >= 0
             THEN DivChunk(BSub(R2, D), D, n - 1, 2 * acc + 1)
             ELSE DivChunk(R2, D, n - 1, 2 * acc)

\* c limbs of quotient
RECURSIVE DivLimbs(_, _, _)
DivLimbs(R, D, c) ==
    IF c = 0 THEN [q |-> <<>>, r |-> R]
    ELSE LET ch   == DivChunk(R, D, 15, 0)
             rest == DivLimbs(ch.r, D, c - 1)
         IN  [q |-> rest.q \o <<ch.q>>, r |-> rest.r]

\* a / b from d = 60 quotient bits and the remainder of a.m * 2^sa by b.m * 2^sd
DivRound(a, b, sa, sd, d) ==
    R64(SignXor(a, b), BNorm(d.q), a.e - b.e + sd - sa - 60, d.r # <<>>)

DivShift(a, b, sa, sd) ==
    DivRound(a, b, sa, sd, DivLimbs(BShl(a.m, sa), BShl(b.m, sd), 4))

DivLen(a, b, La, Lb) == DivShift(a, b, Max(0, Lb - La), Max(0, La - Lb) + 1)

\* float / float; a zero divisor raises
FDiv(a, b) ==
    IF IsZero(b) THEN Raise("ZeroDivisionError")
    ELSE IF a.k = "nan" \/ b.k = "nan" THEN NaN
    ELSE IF a.k = "inf" THEN (IF b.k = "inf" THEN NaN ELSE Inf(SignXor(a, b)))
    ELSE IF b.k = "inf" THEN Zero(SignXor(a, b))
    ELSE IF a.m = <<>> THEN Zero(SignXor(a, b))
    ELSE DivLen(a, b, BBitLen(a.m), BBitLen(b.m))

\* -1, 0, 1 as |a| < |b|, |a| = |b|, |a| > |b|, for nonzero numbers
MagCmp(a, b) ==
    IF a.k = "inf" THEN (IF b.k = "inf" THEN 0 ELSE 1)
    ELSE IF b.k = "inf" THEN -1
    ELSE IF Top(a) < Top(b) THEN -1
    ELSE IF Top(a) > Top(b) THEN 1
    ELSE LET lo == Min(a.e, b.e)
         IN  BCmp(BShl(a.m, a.e - lo), BShl(b.m, b.e - lo))

Sgn(v) == IF IsZero(v) THEN 0 ELSE IF v.s = 1 THEN -1 ELSE 1

\* -1, 0, 1 as a < b, a = b, a > b, for numbers
Ord(a, b) ==
    IF Sgn(a) < Sgn(b) THEN -1
    ELSE IF Sgn(a) > Sgn(b) THEN 1
    ELSE IF Sgn(a) = 0 THEN 0
    ELSE Sgn(a) * MagCmp(a, b)

IsNum(v) == v.k \in {"fin", "inf"}

\* a < b, a > b, a == b, a != b, a >= b on floats: a NaN compares unequal to all
FLt(a, b) == IsNum(a) /\ IsNum(b) /\ Ord(a, b) < 0

FGt(a, b) == IsNum(a) /\ IsNum(b) /\ Ord(a, b) > 0

FEq(a, b) == IsNum(a) /\ IsNum(b) /\ Ord(a, b) = 0

FNe(a, b) == ~FEq(a, b)

FGe(a, b) == IsNum(a) /\ IsNum(b) /\ Ord(a, b) >= 0

\* a float too large raises
Overflows(f) == IF f.k = "inf" THEN Raise("OverflowError") ELSE f

\* float(v) for an int or a float v
ToFloat(v) == IF v.k # "int" THEN v ELSE Overflows(R64(v.s, v.m, 0, FALSE))

\* math.floor(v) for a float v
Floor(v) ==
    IF v.k = "nan" THEN Raise("ValueError")
    ELSE IF v.k = "inf" THEN Raise("OverflowError")
    ELSE IF v.m = <<>> THEN PyInt(0, <<>>)
    ELSE IF v.e >= 0 THEN PyInt(v.s, BShl(v.m, v.e))
    ELSE IF v.s = 0 THEN PyInt(0, BShr(v.m, -v.e))
    ELSE PyInt(1, BAdd(BShr(v.m, -v.e), <<1>>))

\* int + int
IAdd(a, b) ==
    IF a.s = b.s THEN PyInt(a.s, BAdd(a.m, b.m))
    ELSE IF BCmp(a.m, b.m) >= 0 THEN PyInt(a.s, BSub(a.m, b.m))
    ELSE PyInt(b.s, BSub(b.m, a.m))


\* int(v) for a float v: truncation toward zero
Trunc(v) ==
    IF v.k = "nan" THEN Raise("ValueError")
    ELSE IF v.k = "inf" THEN Raise("OverflowError")
    ELSE IF v.m = <<>> THEN PyInt(0, <<>>)
    ELSE IF v.e >= 0 THEN PyInt(v.s, BShl(v.m, v.e))
    ELSE PyInt(v.s, BShr(v.m, -v.e))

\* numpy's store of a float into a float32 array
ToFloat32(v) ==
    IF v.k # "fin" THEN v ELSE R32(v.s, v.m, v.e, FALSE)

(***************************************************************************)
(* Bit operations of Python ints.                                          *)
(***************************************************************************)
\* a mod 2^k
BLowBits(a, k) ==
    BNorm(<<>> \o [i \in 1..Min(Len(a), (k + 14) \div 15) |->
                       IF i = (k \div 15) + 1 THEN a[i] % Pow2(k % 15) ELSE a[i]])

\* 2^k - 1
BOnes(k) == BSub(BShl(<<1>>, k), <<1>>)

\* i & (2^k - 1) on the two's complement form of the int i: the low k bits of
\* m, and for -m those of the complement of m - 1
IAndMask(i, k) ==
    IF i.s = 0 THEN PyInt(0, BLowBits(i.m, k))
    ELSE PyInt(0, BSub(BOnes(k), BLowBits(BSub(i.m, <<1>>), k)))

\* an int in 0 .. 2^30 - 1 as a number
NatOf(i) == BLimbAt(i.m, 1) + Limb * BLimbAt(i.m, 2)

\* a & b for numbers a, b >= 0
RECURSIVE BitAnd(_, _)
BitAnd(a, b) ==
    IF a = 0 \/ b = 0 THEN 0
    ELSE (a % 2) * (b % 2) + 2 * BitAnd(a \div 2, b \div 2)

\* int(v) for an int or a float v
ToInt(v) == IF v.k = "int" THEN v ELSE Trunc(v)

(***************************************************************************)
(* class FastNoiseLite                                                     *)
(***************************************************************************)
TYPE_OPEN_SIMPLEX_2 == 0

TYPE_OPEN_SIMPLEX_2S == 1

TYPE_CELLULAR == 2

TYPE_PERLIN == 3

TYPE_VALUE_CUBIC == 4

TYPE_VALUE == 5

\* the float literals of the source
F0_01 == Fin(0, <<5243, 3932, 27525, 163>>, -59)

F0_5 == Fin(0, <<1>>, -1)

F1_0 == Fin(0, <<1>>, 0)

F2_0 == Fin(0, <<1>>, 1)

F0_0 == Zero(0)

\* the values j of randbelow(i + 1) that random.Random(seed).shuffle draws for
\* i = 255, 254, ..., 1 (CPython's Mersenne Twister seeded with the int seed)
RandBelow(seed) ==
    CASE seed = IntOf(42) -> <<
          57, 6, 189, 70, 62, 57, 35, 188, 26, 173, 189, 228, 139, 22, 151, 108, 8, 7, 23, 55,
          59, 129, 154, 6, 143, 50, 183, 166, 179, 139, 107, 56, 114, 150, 71, 207, 1, 194, 206, 40,
          178, 108, 87, 71, 39, 55, 195, 86, 26, 23, 97, 24, 91, 88, 154, 67, 11, 186, 117, 137,
          31, 96, 20, 141, 75, 160, 158, 92, 147, 49, 180, 17, 11, 169, 58, 74, 20, 59, 25, 97,
          71, 116, 162, 93, 41, 94, 90, 53, 68, 165, 18, 155, 162, 43, 136, 62, 41, 118, 97, 69,
          142, 56, 83, 14, 58, 8, 80, 102, 68, 16, 54, 80, 54, 127, 101, 117, 36, 67, 35, 63,
          67, 109, 102, 92, 56, 35, 126, 23, 12, 110, 14, 19, 80, 20, 101, 87, 54, 76, 8, 49,
          48, 76, 59, 67, 32, 70, 1, 87, 92, 14, 87, 68, 96, 34, 98, 82, 43, 14, 37, 55,
          20, 58, 0, 92, 33, 64, 22, 64, 13, 80, 38, 81, 64, 77, 25, 19, 47, 20, 69, 67,
          0, 41, 62, 2, 14, 46, 39, 30, 7, 30, 10, 10, 62, 52, 4, 48, 34, 49, 8, 8,
          42, 30, 35, 10, 16, 33, 38, 27, 13, 34, 44, 12, 19, 25, 41, 23, 28, 33, 28, 7,
          15, 14, 4, 21, 1, 18, 17, 7, 18, 7, 0, 2, 22, 20, 1, 7, 2, 1, 10, 2,
          7, 4, 10, 7, 3, 8, 2, 7, 3, 6, 3, 3, 1, 0, 0 >>
      [] seed = IntOf(1337) -> <<
          187, 146, 149, 187, 42, 198, 211, 85, 98, 162, 202, 92, 235, 78, 100, 178, 52, 194, 168, 221,
          233, 93, 27, 108, 210, 162, 102, 16, 129, 178, 171, 89, 103, 103, 205, 188, 204, 79, 169, 4,
          213, 90, 152, 30, 117, 63, 43, 203, 80, 173, 176, 154, 117, 154, 67, 51, 140, 17, 163, 134,
          158, 147, 11, 18, 104, 167, 158, 13, 172, 4, 162, 50, 50, 26, 72, 50, 115, 145, 80, 3,
          156, 85, 110, 146, 58, 140, 11, 142, 165, 78, 54, 156, 46, 135, 134, 135, 47, 12, 126, 149,
          116, 6, 133, 124, 138, 90, 142, 145, 65, 67, 17, 33, 15, 43, 80, 20, 49, 112, 64, 13,
          38, 109, 89, 10, 110, 73, 39, 14, 118, 44, 48, 8, 26, 45, 84, 86, 82, 76, 33, 91,
          27, 24, 17, 61, 50, 78, 54, 70, 32, 20, 28, 91, 42, 50, 79, 24, 97, 79, 53, 20,
          91, 60, 79, 89, 80, 41, 5, 3, 69, 76, 24, 82, 55, 39, 69, 40, 51, 45, 28, 39,
          56, 74, 48, 48, 18, 35, 30, 49, 10, 58, 0, 43, 10, 53, 59, 17, 31, 33, 52, 38,
          24, 8, 2, 32, 37, 24, 12, 40, 28, 7, 42, 15, 19, 3, 31, 13, 22, 34, 21, 17,
          6, 9, 32, 2, 31, 9, 0, 4, 4, 14, 2, 20, 23, 19, 15, 14, 0, 5, 6, 5,
          7, 12, 3, 10, 0, 10, 7, 7, 6, 5, 2, 2, 0, 2, 1 >>

\* a variant of Swap that loses x[i]: x[i] = x[j] alone
SwapLost(x, i, j) == [x EXCEPT ![i + 1] = x[j + 1]]

\* x[i], x[j] = x[j], x[i] (i, j from 0)
Swap(x, i, j) == [x EXCEPT ![i + 1] = x[j + 1], ![j + 1] = x[i + 1]]

\* the steps i = hi, hi - 1, ..., lo of the loop of random.shuffle
RECURSIVE ShuffleSteps(_, _, _, _)
ShuffleSteps(x, draws, hi, lo) ==
    IF hi < lo THEN x
    ELSE IF hi - lo < 16
         THEN LET y == Swap(x, hi, draws[Len(x) - hi])
              IN  IF Len(y) = 0 THEN y ELSE ShuffleSteps(y, draws, hi - 1, lo)
    ELSE LET mid == (hi + lo) \div 2
             y   == ShuffleSteps(x, draws, hi, mid + 1)
         IN  IF Len(y) = 0 THEN y ELSE ShuffleSteps(y, draws, mid, lo)

\* rnd.shuffle(x): for i in reversed(range(1, len(x))): j = randbelow(i + 1); swap
Shuffle(x, draws) == ShuffleSteps(x, draws, Len(x) - 1, 1)

\* list(range(n))
Range(n) == <<>> \o [i \in 1..n |-> i - 1]

_build_perm_table(seed) ==
    LET perm == Shuffle(Range(256), RandBelow(seed))
    IN  [perm  |-> perm \o perm,
         grad2 |-> << <<1, 0>>, <<-1, 0>>, <<0, 1>>, <<0, -1>>,
                      <<1, 1>>, <<-1, 1>>, <<1, -1>>, <<-1, -1>> >>]

\* FastNoiseLite(seed): the fields of the new object, or the exception
\* int(seed) raises on line 36, which leaves no object
__init__(seed) ==
    LET i == ToInt(seed)
        s == IAndMask(i, 32)
        t == _build_perm_table(s)
    IN  IF IsErr(i) THEN i
        ELSE [k |-> "FastNoiseLite",
              seed |-> s, noise_type |-> TYPE_PERLIN, frequency |-> F0_01,
              octaves |-> IntOf(3), lacunarity |-> F2_0, gain |-> F0_5,
              perm |-> t.perm, grad2 |-> t.grad2]

\* a variant of set_fractal_octaves that tests octaves >= 0
set_fractal_octaves_from_zero(octaves) ==
    IF (IF octaves.k = "int" THEN octaves.s = 0 ELSE FGe(octaves, F0_0))
    THEN ToInt(octaves) ELSE IntOf(1)

\* the new value of self.octaves, or the exception int() raises
set_fractal_octaves(octaves) ==
    LET ge1 == IF octaves.k = "int"
               THEN octaves.s = 0 /\ octaves.m # <<>>
               ELSE FGe(octaves, F1_0)
    IN  IF ge1 THEN ToInt(octaves) ELSE IntOf(1)

\* float(6), float(15), float(10)
F6_0 == Fin(0, <<3>>, 1)

F15_0 == Fin(0, <<15>>, 0)

F10_0 == Fin(0, <<5>>, 1)

\* a variant of _fade with 9 for 10: it is 0 at 1
FadeTypo(t) ==
    FMul(FMul(FMul(t, t), t),
         FAdd(FMul(t, FSub(FMul(t, F6_0), F15_0)), Fin(0, <<9>>, 0)))

_fade(t) ==
    FMul(FMul(FMul(t, t), t),
         FAdd(FMul(t, FSub(FMul(t, F6_0), F15_0)), F10_0))

_lerp(a, b, t) == FAdd(a, FMul(t, FSub(b, a)))

_grad(self, hash_val, x, y) ==
    LET g == self.grad2[BitAnd(hash_val, 7) + 1]
    IN  FAdd(FMul(ToFloat(IntOf(g[1])), x), FMul(ToFloat(IntOf(g[2])), y))

\* a variant of _perm_hash that masks the absolute values of ix and iy
PermHashAbs(self, ix, iy) ==
    self.perm[BitAnd(self.perm[BLow8(ix.m) + 1] + BLow8(iy.m), 255) + 1]

_perm_hash(self, ix, iy) ==
    self.perm[BitAnd(self.perm[NatOf(IAndMask(ix, 8)) + 1] + NatOf(IAndMask(iy, 8)),
                     255) + 1]

\* lines 122-125: the corner values blended by the faded offsets u, v
Perlin2Blend(n00, n10, n01, n11, u, v) ==
    _lerp(_lerp(n00, n10, u), _lerp(n01, n11, u), v)

\* lines 106-125, with xi1 = xi + 1, yi1 = yi + 1, xf1 = xf - 1, yf1 = yf - 1
Perlin2Corners(self, xi, yi, xi1, yi1, xf, yf, xf1, yf1) ==
    Perlin2Blend(_grad(self, _perm_hash(self, xi, yi), xf, yf),
                 _grad(self, _perm_hash(self, xi1, yi), xf1, yf),
                 _grad(self, _perm_hash(self, xi, yi1), xf, yf1),
                 _grad(self, _perm_hash(self, xi1, yi1), xf1, yf1),
                 _fade(xf), _fade(yf))

\* the interpolation of _perlin2 in the cell (xi, yi) at the offsets (xf, yf)
Perlin2Cell(self, xi, yi, xf, yf) ==
    Perlin2Corners(self, xi, yi, IAdd(xi, IntOf(1)), IAdd(yi, IntOf(1)),
                   xf, yf, FSub(xf, F1_0), FSub(yf, F1_0))

\* lines 103-125 for xi = floor(x), yi = floor(y), or the exception floor raised
Perlin2At(self, x, y, xi, yi) ==
    IF IsErr(xi) THEN xi
    ELSE IF IsErr(yi) THEN yi
    ELSE Perlin2Cell(self, xi, yi, FSub(x, ToFloat(xi)), FSub(y, ToFloat(yi)))

\* _perlin2(x, y) for floats x, y: a float, or the exception math.floor raises
_perlin2(self, x, y) == Perlin2At(self, x, y, Floor(x), Floor(y))

\* a variant of FractalReturn without the test of max_ampl
FractalReturnUnguarded(total, max_ampl) == FDiv(total, max_ampl)

\* line 146: total / max_ampl if max_ampl != 0 else 0.0
FractalReturn(total, max_ampl) ==
    IF FNe(max_ampl, F0_0) THEN FDiv(total, max_ampl) ELSE F0_0

RECURSIVE FractalLoop(_, _, _, _, _, _, _, _)
\* lines 140-144: the rest of one pass of the loop, val as _perlin2 returned it
FractalPass(self, x, y, n, total, amplitude, frequency, max_ampl, val) ==
    IF IsErr(val) THEN val
    ELSE FractalLoop(self, x, y, BSub(n, <<1>>),
                     FAdd(total, FMul(val, amplitude)),
                     FMul(amplitude, self.gain),
                     FMul(frequency, self.lacunarity),
                     FAdd(max_ampl, amplitude))

\* the last n passes of the loop of _perlin_fractal, and its return; n is
\* the magnitude of an int
FractalLoop(self, x, y, n, total, amplitude, frequency, max_ampl) ==
    IF n = <<>> THEN FractalReturn(total, max_ampl)
    ELSE FractalPass(self, x, y, n, total, amplitude, frequency, max_ampl,
                     _perlin2(self, FMul(x, frequency), FMul(y, frequency)))

\* len(range(octaves)): the number of passes of the loop of line 136
Passes(octaves) == IF octaves.s = 1 THEN <<>> ELSE octaves.m

_perlin_fractal(self, x, y) ==
    FractalLoop(self, x, y, Passes(self.octaves), F0_0, F1_0, F1_0, F0_0)

\* if v > 1.0: v = 1.0; if v < -1.0: v = -1.0
Clamp(v) ==
    IF IsErr(v) THEN v
    ELSE IF FGt(v, F1_0) THEN F1_0
    ELSE IF FLt(v, FNeg(F1_0)) THEN FNeg(F1_0)
    ELSE v

\* float(v) * self.frequency, or the exception float raised
Scaled(f, frequency) == IF IsErr(f) THEN f ELSE FMul(f, frequency)

\* lines 158-169 for fx, fy as lines 155-156 computed them
GetNoiseAt(self, fx, fy) ==
    IF IsErr(fx) THEN fx
    ELSE IF IsErr(fy) THEN fy
    ELSE IF self.noise_type = TYPE_PERLIN
         THEN Clamp(_perlin_fractal(self, fx, fy))
         ELSE Clamp(_perlin_fractal(self, fx, fy))

\* get_noise(x, y) for ints or floats x, y: the float returned, or the
\* exception raised
get_noise(self, x, y) ==
    GetNoiseAt(self, Scaled(ToFloat(x), self.frequency),
               Scaled(ToFloat(y), self.frequency))

(***************************************************************************)
(* The state: the fields of one FastNoiseLite object; ret, what the last   *)
(* call returned; first, what the first get_noise call since the last      *)
(* setter call returned; data, the array the rendering loop fills.         *)
(***************************************************************************)
VARIABLES seed, noise_type, frequency, octaves, lacunarity, gain, perm, grad2,
          ret, first, data

fields == <<seed, noise_type, frequency, octaves, lacunarity, gain, perm, grad2>>

vars == <<seed, noise_type, frequency, octaves, lacunarity, gain, perm, grad2,
          ret, first, data>>

(***************************************************************************)
(* perlin_noise_generator.py                                               *)
(***************************************************************************)
OCTAVES == 5

\* FREQ = 0.008, LACUNARITY = 2.0, GAIN = 0.5
FREQ == Fin(0, <<27263, 27000, 25165, 32>>, -57)

LACUNARITY == F2_0

GAIN == F0_5

None == [k |-> "None", s |-> 0, m |-> <<>>, e |-> 0]

RECURSIVE RenderLoop(_, _, _, _, _)
\* line 28: data[y, x] = (v + 1) * 0.5 into the float32 array, then the rest
\* of the loops; an exception of get_noise ends them
RenderStore(self, w, h, i, flat, v) ==
    IF IsErr(v) THEN [flat |-> flat, exc |-> v]
    ELSE RenderLoop(self, w, h, i + 1,
                    Append(flat, ToFloat32(FMul(FAdd(v, ToFloat(IntOf(1))), F0_5))))

\* lines 24-28 from the cell i = y * w + x on, flat the cells stored so far
RenderLoop(self, w, h, i, flat) ==
    IF i >= w * h THEN [flat |-> flat, exc |-> None]
    ELSE RenderStore(self, w, h, i, flat,
                     get_noise(self, IntOf(i % w), IntOf(i \div w)))

\* line 23 and the stores of line 28: h rows of w cells, 0.0 where nothing
\* was stored
RenderData(w, h, flat) ==
    <<>> \o [y \in 1..h |->
               <<>> \o [x \in 1..w |->
                          IF (y - 1) * w + x <= Len(flat)
                          THEN flat[(y - 1) * w + x] ELSE Zero(0)]]

(***************************************************************************)
(* The calls.                                                              *)
(***************************************************************************)
\* the object the methods are called on
Self ==
    [k |-> "FastNoiseLite", seed |-> seed, noise_type |-> noise_type, frequency |-> frequency,
     octaves |-> octaves, lacunarity |-> lacunarity, gain |-> gain,
     perm |-> perm, grad2 |-> grad2]

\* what a call returned: op(x, y) = v; a setter returns None
Returned(op, x, y, v) == [op |-> op, x |-> x, y |-> y, v |-> v]

NoCall == Returned("None", None, None, None)

\* the object o just constructed, on which nothing was called yet; there is
\* none where the constructor raised
Constructed(o) ==
    /\ ~IsErr(o)
    /\ seed = o.seed
    /\ noise_type = o.noise_type
    /\ frequency = o.frequency
    /\ octaves = o.octaves
    /\ lacunarity = o.lacunarity
    /\ gain = o.gain
    /\ perm = o.perm
    /\ grad2 = o.grad2
    /\ ret = NoCall
    /\ first = NoCall
    /\ data = <<>>

\* noise = FastNoiseLite(s)
Construct(s) == Constructed(__init__(s))

\* noise.noise_type = t
SetNoiseType(t) ==
    /\ noise_type' = t
    /\ ret' = NoCall
    /\ first' = NoCall
    /\ UNCHANGED <<seed, frequency, octaves, lacunarity, gain, perm, grad2, data>>

\* what a setter called with arg returns when its conversion gave f
SetterReturn(arg, f) == IF IsErr(f) THEN Returned("raise", arg, None, f) ELSE NoCall

SetFrequencyTo(freq, f) ==
    /\ frequency' = IF IsErr(f) THEN frequency ELSE f
    /\ ret' = SetterReturn(freq, f)
    /\ first' = NoCall
    /\ UNCHANGED <<seed, noise_type, octaves, lacunarity, gain, perm, grad2, data>>

\* noise.set_frequency(freq)
SetFrequency(freq) == SetFrequencyTo(freq, ToFloat(freq))

SetFractalOctavesTo(n, o) ==
    /\ octaves' = IF IsErr(o) THEN octaves ELSE o
    /\ ret' = SetterReturn(n, o)
    /\ first' = NoCall
    /\ UNCHANGED <<seed, noise_type, frequency, lacunarity, gain, perm, grad2, data>>

\* noise.set_fractal_octaves(n)
SetFractalOctaves(n) == SetFractalOctavesTo(n, set_fractal_octaves(n))

SetFractalLacunarityTo(lac, f) ==
    /\ lacunarity' = IF IsErr(f) THEN lacunarity ELSE f
    /\ ret' = SetterReturn(lac, f)
    /\ first' = NoCall
    /\ UNCHANGED <<seed, noise_type, frequency, octaves, gain, perm, grad2, data>>

\* noise.set_fractal_lacunarity(lac)
SetFractalLacunarity(lac) == SetFractalLacunarityTo(lac, ToFloat(lac))

SetFractalGainTo(g, f) ==
    /\ gain' = IF IsErr(f) THEN gain ELSE f
    /\ ret' = SetterReturn(g, f)
    /\ first' = NoCall
    /\ UNCHANGED <<seed, noise_type, frequency, octaves, lacunarity, perm, grad2, data>>

\* noise.set_fractal_gain(g)
SetFractalGain(g) == SetFractalGainTo(g, ToFloat(g))

\* a variant of GetNoise in which the octave loop advances self.frequency
GetNoiseLeaky(x, y) ==
    /\ ret' = Returned("get_noise", x, y, get_noise(Self, x, y))
    /\ frequency' = FMul(frequency, lacunarity)
    /\ UNCHANGED <<seed, noise_type, octaves, lacunarity, gain, perm, grad2, data>>

\* v = noise.get_noise(x, y)
GetNoise(x, y) ==
    /\ ret' = Returned("get_noise", x, y, get_noise(Self, x, y))
    /\ UNCHANGED <<fields, data>>

\* the history of the calls: the first get_noise call since the last setter
Remember == first' = IF first = NoCall THEN ret' ELSE first

\* h = noise._perm_hash(ix, iy)
PermHash(ix, iy) ==
    /\ ret' = Returned("_perm_hash", ix, iy, _perm_hash(Self, ix, iy))
    /\ UNCHANGED <<fields, first, data>>

\* v = noise._perlin2(x, y)
Perlin2(x, y) ==
    /\ ret' = Returned("_perlin2", x, y, _perlin2(Self, x, y))
    /\ UNCHANGED <<fields, first, data>>

\* the body of _perlin2 in the cell (xi, yi) at the offsets (xf, yf)
Cell(xi, yi, xf, yf) ==
    /\ ret' = Returned("Perlin2Cell", [i |-> xi, f |-> xf], [i |-> yi, f |-> yf],
                       Perlin2Cell(Self, IntOf(xi), IntOf(yi), xf, yf))
    /\ UNCHANGED <<fields, first, data>>

\* v = noise._perlin_fractal(x, y)
PerlinFractal(x, y) ==
    /\ ret' = Returned("_perlin_fractal", x, y, _perlin_fractal(Self, x, y))
    /\ UNCHANGED <<fields, first, data>>

Rendered(w, h, r) ==
    /\ data' = RenderData(w, h, r.flat)
    /\ ret' = Returned("render", w, h, r.exc)
    /\ UNCHANGED <<fields, first>>

\* lines 23-28 of the script for an array of h rows and w columns
Render(w, h) == Rendered(w, h, RenderLoop(Self, w, h, 0, <<>>))

(***************************************************************************)
(* The arguments the calls are made with.                                  *)
(***************************************************************************)
MaxOct == 2

MaxCoord == 1

MaxSize == 2

\* 2^e
PowF(e) == Fin(0, <<1>>, e)

F0_9 == Fin(0, <<19661, 6553, 13107, 230>>, -53)

SeedArgs ==
    {IntOf(42), IntOf(1337),
     PyInt(0, BAdd(BShl(<<1>>, 32), <<42>>)),       \* 2^32 + 42
     PyInt(1, BSub(BShl(<<1>>, 32), <<1337>>)),     \* 1337 - 2^32
     Fin(0, <<13107, 26214, 19660, 171>>, -47),     \* 42.9
     NaN, Inf(0)}                                   \* int(seed) raises

TypeArgs ==
    {TYPE_OPEN_SIMPLEX_2, TYPE_OPEN_SIMPLEX_2S, TYPE_CELLULAR, TYPE_PERLIN,
     TYPE_VALUE_CUBIC, TYPE_VALUE}

FreqArgs == {IntOf(1)}

\* -1 .. MaxOct, 0.5, 2.5, nan, inf
OctArgs ==
    {IntOf(n) : n \in -1..MaxOct} \cup {PowF(-1), Fin(0, <<5>>, -1), NaN, Inf(0)}

LacArgs == {F2_0, PowF(600)}

GainArgs == {F0_5, PowF(1000)}

FractalGains == GainArgs \cup {IntOf(-1)}

\* (-1, 0) .. (MaxCoord, 0) and (0.5, 0.25)
Coords ==
    {<<IntOf(i), IntOf(0)>> : i \in -1..MaxCoord} \cup {<<F0_5, PowF(-2)>>}

\* the ints i + 256 k, and two beyond 2^40
HashArgs ==
    {IntOf(i + 256 * k) : i \in -MaxCoord..MaxCoord, k \in -1..1}
        \cup {PyInt(0, BAdd(BShl(<<1>>, 40), <<5>>)),
              PyInt(1, BAdd(BShl(<<1>>, 40), <<5>>))}

CellArgs == -1..(MaxCoord - 1)

F0_1 == Fin(0, <<19661, 6553, 13107, 102>>, -55)

F0_6 == Fin(0, <<13107, 26214, 19660, 153>>, -53)

\* the float just below 1.0
BelowOne == Fin(0, <<32767, 32767, 32767, 255>>, -53)

\* 0.0, 2^-60, 0.1, 0.5, 0.6, 0.9, 1 - 2^-53, 1.0
Offsets == {F0_0, PowF(-60), F0_1, PowF(-1), F0_6, F0_9, BelowOne, F1_0}

\* -2^-60, 0.0, 0.5, 0.9, 1.0, -1.0
FloatArgs == {FNeg(PowF(-60)), F0_0, PowF(-1), F0_9, F1_0, FNeg(F1_0)}

FractalArgs == {<<F0_0, F0_0>>, <<PowF(-1), PowF(-2)>>, <<F0_9, FNeg(PowF(-60))>>}

(***************************************************************************)
(* The object and every call on it.                                        *)
(***************************************************************************)
Init == \E s \in SeedArgs : Construct(s)

Next ==
    \/ \E t \in TypeArgs : SetNoiseType(t)
    \/ \E f \in FreqArgs : SetFrequency(f)
    \/ \E n \in OctArgs : SetFractalOctaves(n)
    \/ \E l \in LacArgs : SetFractalLacunarity(l)
    \/ \E g \in GainArgs : SetFractalGain(g)
    \/ \E c \in Coords : GetNoise(c[1], c[2]) /\ UNCHANGED first

Spec == Init /\ [][Next]_vars

(***************************************************************************)
(* Repeated get_noise calls, with their history.                           *)
(***************************************************************************)
NextCalls ==
    \/ \E n \in OctArgs : SetFractalOctaves(n)
    \/ \E g \in GainArgs : SetFractalGain(g)
    \/ \E c \in Coords : GetNoise(c[1], c[2]) /\ Remember

SpecCalls == Init /\ [][NextCalls]_vars

(***************************************************************************)
(* The methods get_noise is made of, each applied to bounded arguments.    *)
(***************************************************************************)
NextHash == \E ix \in HashArgs, iy \in HashArgs : PermHash(ix, iy)

SpecHash == Init /\ [][NextHash]_vars

\* one call on a new object
NextPerlin ==
    \/ \E x \in FloatArgs, y \in FloatArgs : ret = NoCall /\ Perlin2(x, y)
    \/ \E xi \in CellArgs, yi \in CellArgs, xf \in Offsets, yf \in Offsets :
           ret = NoCall /\ Cell(xi, yi, xf, yf)

SpecPerlin == Init /\ [][NextPerlin]_vars

NextFractal ==
    \/ \E n \in OctArgs : SetFractalOctaves(n)
    \/ \E l \in LacArgs : SetFractalLacunarity(l)
    \/ \E g \in FractalGains : SetFractalGain(g)
    \/ \E c \in FractalArgs : PerlinFractal(c[1], c[2])

SpecFractal == Init /\ [][NextFractal]_vars

(***************************************************************************)
(* The script: the object configured, then the array filled.               *)
(***************************************************************************)
\* lines 16-21, then lines 23-28 once
Configuring == ret.op # "render"

NextRender ==
    \/ Configuring /\ SetNoiseType(TYPE_PERLIN)
    \/ \E f \in {FREQ, F1_0} : Configuring /\ SetFrequency(f)
    \/ \E n \in {OCTAVES, 1} : Configuring /\ SetFractalOctaves(IntOf(n))
    \/ Configuring /\ SetFractalLacunarity(LACUNARITY)
    \/ \E g \in {GAIN, PowF(1000)} : Configuring /\ SetFractalGain(g)
    \/ \E w \in 0..MaxSize, h \in 0..MaxSize : Configuring /\ Render(w, h)

SpecRender == Init /\ [][NextRender]_vars


(***************************************************************************)
(* The properties.                                                         *)
(***************************************************************************)
\* C1: every value get_noise returns is a number v with -1 <= v <= 1,
\* whatever the seed, the noise type, the setters called and the coordinates.
NoiseInRange ==
    ret.op = "get_noise" =>
        /\ ret.v.k = "fin"
        /\ FGe(ret.v, FNeg(F1_0))
        /\ FGe(F1_0, ret.v)

\* C2: the permutation table has 512 entries, its first 256 hold each of
\* 0..255 once, entry i + 256 equals entry i, and no setter or get_noise call
\* changes that.
PermTableWellFormed ==
    /\ Len(perm) = 512
    /\ {perm[i] : i \in 1..256} = 0..255
    /\ \A i \in 1..256 : perm[i + 256] = perm[i]

\* a get_noise call made after setters changed the octaves and the noise type
PermTableAfterCalls ==
    /\ ret.op = "get_noise"
    /\ octaves = IntOf(1)
    /\ noise_type = TYPE_VALUE
    /\ gain # F0_5

\* the int n is 0 or negative / the float n is <= 0
AtMostZero(n) == IF n.k = "int" THEN n.s = 1 \/ n.m = <<>> ELSE FGe(F0_0, n)

\* n >= 1, n finite
AtLeastOne(n) ==
    IF n.k = "int" THEN n.s = 0 /\ n.m # <<>> ELSE n.k = "fin" /\ FGe(n, F1_0)

\* what C3 says set_fractal_octaves(n) leaves in octaves
OctavesAsAsked(n) ==
    /\ AtMostZero(n) => octaves' = IntOf(1)
    /\ AtLeastOne(n) => octaves' = ToInt(n)

\* C3: the octave count is always an integer >= 1; set_fractal_octaves(n)
\* with n zero or negative leaves it at 1, and with n >= 1 sets it to int(n).
OctavesAtLeastOne ==
    /\ [](octaves.k = "int" /\ octaves.s = 0 /\ octaves.m # <<>>)
    /\ [][\A n \in OctArgs : SetFractalOctaves(n) => OctavesAsAsked(n)]_vars

\* set_fractal_octaves was called with 0 or less and get_noise after it
OctavesCoercedToOne ==
    /\ octaves = IntOf(1)
    /\ ret.op = "get_noise"
    /\ ~IsErr(ret.v)

\* C4: with a noise type other than PERLIN, get_noise returns the value the
\* same engine with noise type PERLIN returns, and never raises.
OtherKindsAsPerlin ==
    ret.op = "get_noise" /\ noise_type # TYPE_PERLIN =>
        /\ ~IsErr(ret.v)
        /\ ret.v = get_noise([Self EXCEPT !.noise_type = TYPE_PERLIN], ret.x, ret.y)

\* a second engine built from the same seed and given the same setter calls
Twin ==
    [__init__(seed) EXCEPT !.noise_type = noise_type, !.frequency = frequency,
                           !.octaves = octaves, !.lacunarity = lacunarity,
                           !.gain = gain]

\* C5: get_noise(x, y) returns what the first call at (x, y) since the last
\* setter returned, whatever calls were made in between, and what a second
\* engine built from the same seed with the same setter calls returns.
SameCallSameValue ==
    ret.op = "get_noise" =>
        /\ first.op = "get_noise"
        /\ (first.x = ret.x /\ first.y = ret.y => ret.v = first.v)
        /\ ret.v = get_noise(Twin, ret.x, ret.y)

\* a call at the coordinates of the first call, with a value that is not 0
RepeatedCall ==
    /\ ret.op = "get_noise"
    /\ first.op = "get_noise"
    /\ first.x = ret.x /\ first.y = ret.y
    /\ octaves = IntOf(2)
    /\ ret.v.k = "fin" /\ ~IsZero(ret.v)

\* the formula of the cell right of the returned one at x-offset 0
RightCell ==
    Perlin2Cell(Self, IntOf(ret.x.i + 1), IntOf(ret.y.i), F0_0, ret.y.f)

\* the formula of the cell above the returned one at y-offset 0
UpperCell ==
    Perlin2Cell(Self, IntOf(ret.x.i), IntOf(ret.y.i + 1), ret.x.f, F0_0)

\* |a - b| <= 2^-48
Close(a, b) == FGe(PowF(-48), [FSub(a, b) EXCEPT !.s = 0])

\* C6 as amended: the formula of a cell at x-offset 1 and that of the cell
\* right of it at x-offset 0 agree up to floating-point rounding (within
\* 2^-48) at every y-offset f, and exactly where f is 0 or 1; the same for
\* the y boundary; _perlin2 just left of a boundary is as close to _perlin2
\* on it.
CellBoundaryClose ==
    /\ ret.op = "Perlin2Cell" /\ ret.x.f = F1_0 =>
           /\ Close(ret.v, RightCell)
           /\ ret.y.f \in {F0_0, F1_0} => FEq(ret.v, RightCell)
    /\ ret.op = "Perlin2Cell" /\ ret.y.f = F1_0 =>
           /\ Close(ret.v, UpperCell)
           /\ ret.x.f \in {F0_0, F1_0} => FEq(ret.v, UpperCell)
    /\ ret.op = "_perlin2" /\ ret.x = FNeg(PowF(-60)) =>
           Close(ret.v, _perlin2(Self, F0_0, ret.y))
    /\ ret.op = "_perlin2" /\ ret.y = FNeg(PowF(-60)) =>
           Close(ret.v, _perlin2(Self, ret.x, F0_0))

\* C6 as stated: the two formulas yield the same value at every offset f.
CellBoundaryEqual ==
    /\ ret.op = "Perlin2Cell" /\ ret.x.f = F1_0 => FEq(ret.v, RightCell)
    /\ ret.op = "Perlin2Cell" /\ ret.y.f = F1_0 => FEq(ret.v, UpperCell)

\* a cell at x-offset 1 and y-offset 0.9 whose value is not that of the
\* cell right of it
CellBoundaryRounds ==
    /\ ret.op = "Perlin2Cell"
    /\ ret.x.f = F1_0
    /\ ret.y.f = F0_9
    /\ ~IsZero(ret.v)
    /\ ~FEq(ret.v, RightCell)

\* what render(w, h) stored at row y, column x
Stored(x, y) == data[y + 1][x + 1]

\* (v + 1) * 0.5 as the float32 array holds it
Rescaled(v) == ToFloat32(FMul(FAdd(v, F1_0), F0_5))

\* C7: the driver stores (get_noise(x, y) + 1) * 0.5 at row y, column x of
\* every row and column, every stored value lies in [0, 1], and with 1 octave
\* and frequency 1.0 the stored value is (_perlin2(x, y) + 1) * 0.5.
RenderStoresScaledNoise ==
    ret.op = "render" =>
        /\ ret.v = None
        /\ Len(data) = ret.y
        /\ \A y \in 0..(ret.y - 1) :
              /\ Len(data[y + 1]) = ret.x
              /\ \A x \in 0..(ret.x - 1) :
                    /\ ~IsErr(get_noise(Self, IntOf(x), IntOf(y)))
                    /\ Stored(x, y) = Rescaled(get_noise(Self, IntOf(x), IntOf(y)))
                    /\ FGe(Stored(x, y), F0_0)
                    /\ FGe(F1_0, Stored(x, y))
                    /\ octaves = IntOf(1) /\ frequency = F1_0 =>
                           Stored(x, y) =
                               Rescaled(_perlin2(Self, ToFloat(IntOf(x)),
                                                 ToFloat(IntOf(y))))

\* lacunarity^k and gain^k as the loop of _perlin_fractal multiplies them up
RECURSIVE LacunarityPow(_)
LacunarityPow(k) == IF k = 0 THEN F1_0 ELSE FMul(LacunarityPow(k - 1), lacunarity)

RECURSIVE GainPow(_)
GainPow(k) == IF k = 0 THEN F1_0 ELSE FMul(GainPow(k - 1), gain)

\* single-octave evaluate(x * lacunarity^k, y * lacunarity^k)
Octave(x, y, k) ==
    _perlin2(Self, FMul(x, LacunarityPow(k)), FMul(y, LacunarityPow(k)))

\* the sum of Octave(x, y, k) * gain^k for k = 0 .. n - 1
RECURSIVE OctaveSum(_, _, _)
OctaveSum(x, y, n) ==
    IF n = 0 THEN F0_0
    ELSE FAdd(OctaveSum(x, y, n - 1), FMul(Octave(x, y, n - 1), GainPow(n - 1)))

\* the sum of gain^k for k = 0 .. n - 1
RECURSIVE AmplitudeSum(_)
AmplitudeSum(n) ==
    IF n = 0 THEN F0_0 ELSE FAdd(AmplitudeSum(n - 1), GainPow(n - 1))

\* the octave count n
Octaves == NatOf(octaves)

\* the octaves whose single-octave evaluate raises
Raising(x, y) == {k \in 0..(Octaves - 1) : IsErr(Octave(x, y, k))}

\* the weighted mean of the octaves, 0.0 where the amplitudes sum to zero,
\* and the exception of the first octave that raises one
WeightedMean(x, y) ==
    IF Raising(x, y) # {}
    THEN Octave(x, y, CHOOSE k \in Raising(x, y) : \A j \in Raising(x, y) : k <= j)
    ELSE IF FEq(AmplitudeSum(Octaves), F0_0) THEN F0_0
    ELSE FDiv(OctaveSum(x, y, Octaves), AmplitudeSum(Octaves))

\* C8: _perlin_fractal(x, y) is the sum of the octaves' values times gain^k
\* divided by the sum of the amplitudes gain^k; where that sum is zero it is
\* 0.0, and no division by zero happens.
FractalIsWeightedMean ==
    ret.op = "_perlin_fractal" =>
        /\ ret.v = WeightedMean(ret.x, ret.y)
        /\ ret.v.k # "ZeroDivisionError"
        /\ Raising(ret.x, ret.y) = {} /\ FEq(AmplitudeSum(Octaves), F0_0) =>
               ret.v = F0_0

\* gain -1 with 2 octaves: the amplitudes 1 and -1 sum to zero although the
\* octaves' values do not
ZeroAmplitudeSum ==
    /\ ret.op = "_perlin_fractal"
    /\ octaves = IntOf(2)
    /\ FEq(gain, FNeg(F1_0))
    /\ ~IsZero(OctaveSum(ret.x, ret.y, Octaves))
    /\ IsZero(AmplitudeSum(Octaves))
    /\ ret.v = F0_0

\* i mod 256, the non-negative remainder, of the int i
Mod256(i) == IF i.s = 0 THEN BLow8(i.m) ELSE (256 - BLow8(i.m)) % 256

\* C9: _perm_hash(ix, iy) is table[(table[ix mod 256] + iy) mod 256] with the
\* non-negative remainder, also for negative ix, iy: the indices and the hash
\* lie in 0..255, and the hash has period 256 in ix and in iy.
PermHashIsModular ==
    ret.op = "_perm_hash" =>
        /\ ret.v = perm[Mod256(IAdd(IntOf(perm[Mod256(ret.x) + 1]), ret.y)) + 1]
        /\ ret.v \in 0..255
        /\ Mod256(ret.x) \in 0..255
        /\ Mod256(IAdd(IntOf(perm[Mod256(ret.x) + 1]), ret.y)) \in 0..255
        /\ ret.v = _perm_hash(Self, IAdd(ret.x, IntOf(256)), ret.y)
        /\ ret.v = _perm_hash(Self, ret.x, IAdd(ret.y, IntOf(256)))

\* a hash of two negative ints
NegativeHash ==
    /\ ret.op = "_perm_hash"
    /\ ret.x.s = 1 /\ ret.x.m # <<>>
    /\ ret.y.s = 1 /\ ret.y.m # <<>>
    /\ ret.v \in 0..255

\* the float f is an integer
IsWhole(f) == f.k = "fin" /\ (f.m = <<>> \/ f.e >= 0)

\* C10: _perlin2 is exactly 0 at integer coordinates; so get_noise is 0 at
\* integer coordinates whenever frequency and lacunarity are integers, and
\* get_noise(0, 0) is 0 in every configuration.
ZeroAtIntegers ==
    /\ \A c \in Coords :
          c[1].k = "int" /\ c[2].k = "int" =>
              IsZero(_perlin2(Self, ToFloat(c[1]), ToFloat(c[2])))
    /\ ret.op = "get_noise" /\ ret.x.k = "int" /\ ret.y.k = "int"
           /\ IsWhole(frequency) /\ IsWhole(lacunarity) => IsZero(ret.v)
    /\ ret.op = "get_noise" /\ ret.x = IntOf(0) /\ ret.y = IntOf(0) =>
           IsZero(ret.v)

=============================================================================
